---- MODULE Spec2Model ----
(***************************************************************************)
(* WebGLContextManager (src/src/MediaEffect.ts:362-512): a pool of WebGL2  *)
(* contexts multiplexed over caller canvases, together with the one        *)
(* caller operation that dirties a context's GPU state                     *)
(* (MediaEffect.render, src/src/MediaEffect.ts:115-203).                   *)
(***************************************************************************)
EXTENDS Integers, Sequences, FiniteSets, TLC

\* ---------------------------------------------------------------- bounds
\* Pool capacity.  The source sets 14 (MediaEffect.ts:371); the model runs the
\* same code with a small capacity so that every pool state is enumerated.
maxContexts == 2

\* Date.now() takes the values 0..MaxTime.
MaxTime == 1

\* Caller canvases: one more than the capacity, so that the pool can be exhausted.
Targets == 1..(maxContexts + 1)

\* Context handles: the k-th context the platform hands out is k.
Handles == 1..maxContexts

\* Width/height pairs a caller canvas (or an updateContextSize call) may carry.
CanvasSizes == {<<1, 1>>, <<3, 2>>}

\* The value of contextMap.get(canvas) for an unmapped canvas, and of a
\* getContext call that returns null.
Null == 0

\* ----------------------------------------------------------------- state
VARIABLES
    contexts,    \* ContextEntry[]: gl, canvas size, isInUse, lastUsed, GPU state
    contextMap,  \* WeakMap<HTMLCanvasElement, WebGL2RenderingContext>, over the
                 \* canvases callers still hold (Null: no entry for the canvas)
    now,         \* the value Date.now() returns
    last         \* the most recent call: operation, canvas argument, the context
                 \* it returned (getContext) or found (the other calls)

vars == <<contexts, contextMap, now, last>>

\* GPU-visible state of a context just created by canvas.getContext('webgl2'):
\* nothing bound, texture unit 0 active, drawing buffer transparent black.
FreshGpu ==
    [ program            |-> FALSE,
      arrayBuffer        |-> FALSE,
      elementArrayBuffer |-> FALSE,
      boundTextures      |-> {},
      activeTexture      |-> 0,
      framebuffer        |-> FALSE,
      renderbuffer       |-> FALSE,
      cleared            |-> TRUE ]

\* Mutant: the clear left out.
ClearColorBufferSkipped(g) == g

\* gl.clearColor(0, 0, 0, 0); gl.clear(gl.COLOR_BUFFER_BIT): clears the colour
\* buffer of the bound framebuffer, the drawing buffer when none is bound.
ClearColorBuffer(g) ==
    IF g.framebuffer THEN g ELSE [g EXCEPT !.cleared = TRUE]

\* this.contexts.find(e => e.gl === gl): index of the entry, 0 when absent.
FindEntry(ctxs, gl) ==
    IF \E i \in 1..Len(ctxs) : ctxs[i].gl = gl
    THEN CHOOSE i \in 1..Len(ctxs) :
            /\ ctxs[i].gl = gl
            /\ \A j \in 1..(i - 1) : ctxs[j].gl # gl
    ELSE 0

\* Mutant: the predicate of the find without its negation, handing out the
\* first entry that is in use.
FindFreeEntryInUse(ctxs) ==
    IF \E i \in 1..Len(ctxs) : ctxs[i].isInUse
    THEN CHOOSE i \in 1..Len(ctxs) :
            /\ ctxs[i].isInUse
            /\ \A j \in 1..(i - 1) : ~ctxs[j].isInUse
    ELSE 0

\* Mutant: the free-entry lookup never finding anything.
FindFreeEntryNone(ctxs) == 0

\* this.contexts.find(entry => !entry.isInUse): first free entry in pool order.
FindFreeEntry(ctxs) ==
    IF \E i \in 1..Len(ctxs) : ~ctxs[i].isInUse
    THEN CHOOSE i \in 1..Len(ctxs) :
            /\ ~ctxs[i].isInUse
            /\ \A j \in 1..(i - 1) : ctxs[j].isInUse
    ELSE 0

\* The reduce of findOldestUnusedContext over entries i..Len(ctxs), with the
\* accumulator at index oldest: a later entry replaces it only when strictly older.
RECURSIVE ReduceOldest(_, _, _)
ReduceOldest(ctxs, oldest, i) ==
    IF i > Len(ctxs) THEN oldest
    ELSE IF ctxs[i].isInUse THEN ReduceOldest(ctxs, oldest, i + 1)
    ELSE IF ctxs[i].lastUsed < ctxs[oldest].lastUsed
         THEN ReduceOldest(ctxs, i, i + 1)
         ELSE ReduceOldest(ctxs, oldest, i + 1)

\* Mutant: the oldest-entry search without its isInUse filter.
findOldestContext(ctxs) == IF Len(ctxs) = 0 THEN 0 ELSE 1

findOldestUnusedContext(ctxs) ==
    LET first == FindFreeEntry(ctxs)
    IN  IF first = 0 THEN 0 ELSE ReduceOldest(ctxs, first, first + 1)

cleanupContext(g) ==
    ClearColorBuffer(
        [g EXCEPT !.program            = FALSE,
                  !.arrayBuffer        = FALSE,
                  !.elementArrayBuffer = FALSE,
                  !.boundTextures      = @ \ {g.activeTexture},
                  !.framebuffer        = FALSE,
                  !.renderbuffer       = FALSE])

\* The entry createNewContext pushes: a hidden 1x1 canvas and its new context.
NewEntry(ctxs, t) ==
    [ gl       |-> Len(ctxs) + 1,
      size     |-> <<1, 1>>,
      isInUse  |-> FALSE,
      lastUsed |-> t,
      gpu      |-> FreshGpu ]

createNewContext(ctxs, t) == Append(ctxs, NewEntry(ctxs, t))

\* The entry fields assignContextToCanvas writes.
assignContextToCanvas(entry, size, t) ==
    [entry EXCEPT !.isInUse = TRUE, !.lastUsed = t, !.size = size]

\* Mutant: the timestamp refresh applied to every entry instead of the one found.
markContextAsUsedAll(ctxs, gl, t) ==
    [i \in 1..Len(ctxs) |-> [ctxs[i] EXCEPT !.lastUsed = t]]

markContextAsUsed(ctxs, gl, t) ==
    LET i == FindEntry(ctxs, gl)
    IN  IF i = 0 THEN ctxs ELSE [ctxs EXCEPT ![i].lastUsed = t]

\* Mutant: the capacity test off by one, letting the pool grow past maxContexts.
BelowCapacityInclusive(ctxs) == Len(ctxs) <= maxContexts

\* Mutant: the capacity test off by one the other way, refusing the last slot.
BelowCapacityShort(ctxs) == Len(ctxs) < maxContexts - 1

\* The guard of the creation branch of getContext.
BelowCapacity(ctxs) == Len(ctxs) < maxContexts

getStats ==
    [ total |-> Len(contexts),
      inUse |-> Cardinality({i \in 1..Len(contexts) : contexts[i].isInUse}),
      free  |-> Cardinality({i \in 1..Len(contexts) : ~contexts[i].isInUse}) ]

\* A record of a call: the operation, its canvas argument, the context it
\* returned or found, the return statement of getContext that ended it, and
\* whether the platform handed back every context the call asked it for.
Call(op, canvas, result, path, glOk) ==
    [op |-> op, canvas |-> canvas, result |-> result, path |-> path, glOk |-> glOk]

\* --------------------------------------------------------------- actions
Init ==
    /\ contexts = <<>>
    /\ contextMap = [c \in Targets |-> Null]
    /\ now = 0
    /\ last = Call("new", Null, Null, "", TRUE)

\* getContext reaches createNewContext: canvas unmapped, no free entry, room left.
CreationAttempted(canvas) ==
    /\ contextMap[canvas] = Null
    /\ FindFreeEntry(contexts) = 0
    /\ BelowCapacity(contexts)

\* getContext(canvas), the canvas having dimensions size; glOk is whether
\* canvas.getContext('webgl2') hands back a context when it is asked to.
GetContext(canvas, size, glOk) ==
    LET existingContext == contextMap[canvas]
        freeEntry       == FindFreeEntry(contexts)
        created         == createNewContext(contexts, now)
        oldestEntry     == findOldestUnusedContext(contexts)
    IN  /\ glOk \/ CreationAttempted(canvas)
        /\ IF existingContext # Null
           THEN /\ contexts' = markContextAsUsed(contexts, existingContext, now)
                /\ UNCHANGED contextMap
                /\ last' = Call("getContext", canvas, existingContext, "existing", TRUE)
           ELSE IF freeEntry # 0
           THEN /\ contexts' = [contexts EXCEPT ![freeEntry] =
                                    assignContextToCanvas(@, size, now)]
                /\ contextMap' = [contextMap EXCEPT ![canvas] = contexts[freeEntry].gl]
                /\ last' = Call("getContext", canvas, contexts[freeEntry].gl, "free", TRUE)
           ELSE IF BelowCapacity(contexts) /\ glOk
           THEN /\ contexts' = [created EXCEPT ![Len(created)] =
                                    assignContextToCanvas(@, size, now)]
                /\ contextMap' = [contextMap EXCEPT ![canvas] = created[Len(created)].gl]
                /\ last' = Call("getContext", canvas, created[Len(created)].gl, "new", TRUE)
           ELSE IF oldestEntry # 0
           THEN /\ contexts' = [contexts EXCEPT ![oldestEntry] =
                                    assignContextToCanvas(
                                        [@ EXCEPT !.gpu = cleanupContext(@)], size, now)]
                /\ contextMap' = [contextMap EXCEPT ![canvas] = contexts[oldestEntry].gl]
                /\ last' = Call("getContext", canvas, contexts[oldestEntry].gl, "oldest", glOk)
           ELSE /\ UNCHANGED <<contexts, contextMap>>
                /\ last' = Call("getContext", canvas, Null, "null", glOk)
        /\ UNCHANGED now

\* Mutant: releaseContext without its final contextMap.delete(canvas).
ReleaseContextKeepsMapping(canvas) ==
    LET context == contextMap[canvas]
        entry   == FindEntry(contexts, context)
    IN  /\ contexts' =
              IF context # Null /\ entry # 0
              THEN [contexts EXCEPT ![entry].isInUse  = FALSE,
                                    ![entry].lastUsed = now,
                                    ![entry].gpu      = ClearColorBuffer(@)]
              ELSE contexts
        /\ last' = Call("releaseContext", canvas, context, "", TRUE)
        /\ UNCHANGED <<contextMap, now>>

ReleaseContext(canvas) ==
    LET context == contextMap[canvas]
        entry   == FindEntry(contexts, context)
    IN  /\ IF context = Null
           THEN UNCHANGED <<contexts, contextMap>>
           ELSE /\ contexts' =
                      IF entry # 0
                      THEN [contexts EXCEPT ![entry].isInUse  = FALSE,
                                            ![entry].lastUsed = now,
                                            ![entry].gpu      = ClearColorBuffer(@)]
                      ELSE contexts
                /\ contextMap' = [contextMap EXCEPT ![canvas] = Null]
        /\ last' = Call("releaseContext", canvas, context, "", TRUE)
        /\ UNCHANGED now

\* MediaEffect.render(gl) by the caller that holds gl for one of its canvases;
\* ready is textureManager.ready().  After the draw the program, the
\* texCoord buffer and texture units 0..2 are bound and unit 2 is active.
RenderedGpu(g) ==
    [ClearColorBuffer(g) EXCEPT !.program       = TRUE,
                                !.arrayBuffer   = TRUE,
                                !.boundTextures = {0, 1, 2},
                                !.activeTexture = 2,
                                !.cleared       = FALSE]

Render(gl, ready) ==
    LET entry == FindEntry(contexts, gl)
    IN  /\ \E canvas \in Targets : contextMap[canvas] = gl
        /\ entry # 0
        /\ contexts' = IF ready
                       THEN [contexts EXCEPT ![entry].gpu = RenderedGpu(@)]
                       ELSE contexts
        /\ last' = Call("render", Null, Null, "", TRUE)
        /\ UNCHANGED <<contextMap, now>>

\* Mutant: updateContextSize also counting as a use of the entry.
UpdateContextSizeMarksUsed(gl, size) ==
    LET entry == FindEntry(contexts, gl)
    IN  /\ contexts' = IF entry # 0
                       THEN [contexts EXCEPT ![entry].size = size,
                                             ![entry].lastUsed = now]
                       ELSE contexts
        /\ last' = Call("updateContextSize", Null,
                        IF entry # 0 THEN gl ELSE Null, "", TRUE)
        /\ UNCHANGED <<contextMap, now>>

UpdateContextSize(gl, size) ==
    LET entry == FindEntry(contexts, gl)
    IN  /\ contexts' = IF entry # 0
                       THEN [contexts EXCEPT ![entry].size = size]
                       ELSE contexts
        /\ last' = Call("updateContextSize", Null,
                        IF entry # 0 THEN gl ELSE Null, "", TRUE)
        /\ UNCHANGED <<contextMap, now>>

\* renderToCanvas(sourceGl, targetCanvas); has2d is whether
\* targetCanvas.getContext('2d') hands back a context.  The drawing goes to the
\* target canvas's own 2d context: nothing the pool keeps is written.
RenderToCanvas(sourceGl, has2d) ==
    /\ last' = Call("renderToCanvas", Null,
                    IF has2d /\ FindEntry(contexts, sourceGl) # 0 THEN sourceGl ELSE Null,
                    "", TRUE)
    /\ UNCHANGED <<contexts, contextMap, now>>

\* Date.now() advances.
Tick ==
    /\ now < MaxTime
    /\ now' = now + 1
    /\ last' = Call("tick", Null, Null, "", TRUE)
    /\ UNCHANGED <<contexts, contextMap>>

\* The calls on the WebGLContextManager itself.
NextPool ==
    \/ \E canvas \in Targets, size \in CanvasSizes, glOk \in BOOLEAN :
          GetContext(canvas, size, glOk)
    \/ \E canvas \in Targets : ReleaseContext(canvas)
    \/ \E gl \in Handles, size \in CanvasSizes : UpdateContextSize(gl, size)
    \/ \E gl \in Handles, has2d \in BOOLEAN : RenderToCanvas(gl, has2d)
    \/ Tick

\* The manager's calls interleaved with the draw calls of its callers.
Next ==
    \/ NextPool
    \/ \E gl \in Handles, ready \in BOOLEAN : Render(gl, ready)

Spec == Init /\ [][Next]_vars

SpecPool == Init /\ [][NextPool]_vars

\* A fresh manager on which canvases are only acquired, never released, and
\* the platform hands back every context it is asked for.
NextAcquire ==
    \/ \E canvas \in Targets, size \in CanvasSizes : GetContext(canvas, size, TRUE)
    \/ Tick

SpecAcquire == Init /\ [][NextAcquire]_vars

\* Callers that keep releasing and retrying: some mapped canvas is released
\* again and again, and a canvas without a context that could be given one
\* again and again is given one in the end.
ReleaseSomeMapped ==
    \E canvas \in Targets : contextMap[canvas] # Null /\ ReleaseContext(canvas)

AcquireServed(canvas) ==
    /\ contextMap[canvas] = Null
    /\ \E glOk \in BOOLEAN : GetContext(canvas, <<1, 1>>, glOk)
    /\ last'.result # Null

\* Their canvases are all 1x1.
NextRetry ==
    \/ \E canvas \in Targets, glOk \in BOOLEAN : GetContext(canvas, <<1, 1>>, glOk)
    \/ \E canvas \in Targets : ReleaseContext(canvas)
    \/ Tick

SpecRetry ==
    /\ Init
    /\ [][NextRetry]_vars
    /\ WF_vars(ReleaseSomeMapped)
    /\ \A canvas \in Targets : SF_vars(AcquireServed(canvas))

\* Callers that acquire, draw and release, on 1x1 canvases that are never
\* resized or presented.
NextDraw ==
    \/ \E canvas \in Targets, glOk \in BOOLEAN : GetContext(canvas, <<1, 1>>, glOk)
    \/ \E canvas \in Targets : ReleaseContext(canvas)
    \/ \E gl \in Handles, ready \in BOOLEAN : Render(gl, ready)
    \/ Tick

SpecDraw == Init /\ [][NextDraw]_vars

\* ---------------------------------------------------------------- claims
\* Steps, told apart by the call they record.
IsGetContext(canvas) == last'.op = "getContext" /\ last'.canvas = canvas
IsReleaseContext(canvas) == last'.op = "releaseContext" /\ last'.canvas = canvas

Bound(canvas) == contextMap[canvas] # Null
BoundTargets == {c \in Targets : Bound(c)}
FreeEntries(ctxs) == {i \in 1..Len(ctxs) : ~ctxs[i].isInUse}

\* C1: after any sequence of getContext and releaseContext calls, getStats()
\* has inUse + free = total and total <= maxContexts.
C1_StatsConsistent ==
    /\ getStats.inUse + getStats.free = getStats.total
    /\ getStats.total <= maxContexts

\* A full pool with both a bound and a released entry, just after a release.
C1_Witness ==
    /\ last.op = "releaseContext"
    /\ last.result # Null
    /\ getStats.total = maxContexts
    /\ getStats.inUse > 0
    /\ getStats.free > 0

C2_BindingsMirrorInUse ==
    /\ \A c1, c2 \in Targets :
          (c1 # c2 /\ Bound(c1)) => contextMap[c1] # contextMap[c2]
    /\ \A c \in Targets :
          Bound(c) => \E i \in 1..Len(contexts) : contexts[i].gl = contextMap[c]
    /\ \A i \in 1..Len(contexts) :
          contexts[i].isInUse <=> \E c \in Targets : contextMap[c] = contexts[i].gl

C2_AcquireNeverHandsInUse ==
    \A c \in Targets :
       (IsGetContext(c) /\ ~Bound(c) /\ last'.result # Null) =>
          \A i \in 1..Len(contexts) :
             contexts[i].gl = last'.result => ~contexts[i].isInUse

\* C2: in every reachable state no two canvases are mapped to the same
\* context, every mapped context is an entry of the pool, and an entry is in
\* use exactly when some canvas is mapped to its context; and a getContext for
\* an unmapped canvas never returns a context whose entry was in use before.
C2_ExclusiveBinding ==
    []C2_BindingsMirrorInUse /\ [][C2_AcquireNeverHandsInUse]_vars

\* A released entry handed on by the free-entry branch while every other
\* entry of the full pool stays bound.
C2_Witness ==
    /\ last.op = "getContext"
    /\ last.path = "free"
    /\ Len(contexts) = maxContexts
    /\ Cardinality(BoundTargets) = maxContexts

\* C3: from an empty pool, with no release and creation succeeding, every
\* canvas acquired so far got a context of its own (as many entries as mapped
\* canvases, pairwise distinct contexts), a getContext fails only for an
\* unmapped canvas when maxContexts canvases hold a context, and a successful
\* one leaves its canvas mapped to the context it returned.
C3_FillThenExhaust ==
    /\ Len(contexts) = Cardinality(BoundTargets)
    /\ Cardinality({contextMap[c] : c \in BoundTargets}) = Cardinality(BoundTargets)
    /\ Cardinality(BoundTargets) <= maxContexts
    /\ last.op = "getContext" =>
          IF last.result = Null
          THEN ~Bound(last.canvas) /\ Cardinality(BoundTargets) = maxContexts
          ELSE contextMap[last.canvas] = last.result

\* The (maxContexts + 1)-th canvas was refused after maxContexts were served.
C3_Witness ==
    /\ last.op = "getContext"
    /\ last.result = Null
    /\ Cardinality({contextMap[c] : c \in BoundTargets}) = maxContexts

\* The free entry with the smallest lastUsed, the earliest in pool order
\* among equals.
LeastRecentlyUsedFree(ctxs) ==
    CHOOSE i \in FreeEntries(ctxs) :
       \A j \in FreeEntries(ctxs) :
          \/ ctxs[i].lastUsed < ctxs[j].lastUsed
          \/ ctxs[i].lastUsed = ctxs[j].lastUsed /\ i <= j

\* C4: with the pool at capacity and some entry free, getContext for an
\* unmapped canvas returns the context of the free entry with the smallest
\* lastUsed, ties going to the earlier entry of the pool.
C4_EvictsLeastRecentlyUsed ==
    [][\A c \in Targets :
          (/\ IsGetContext(c)
           /\ ~Bound(c)
           /\ Len(contexts) = maxContexts
           /\ FreeEntries(contexts) # {})
          => last'.result = contexts[LeastRecentlyUsedFree(contexts)].gl]_vars

\* Nothing bound on the context (for textures: on its active unit) and its
\* drawing buffer transparent black.
GpuReset(g) ==
    /\ ~g.program
    /\ ~g.arrayBuffer
    /\ ~g.elementArrayBuffer
    /\ g.activeTexture \notin g.boundTextures
    /\ ~g.framebuffer
    /\ ~g.renderbuffer
    /\ g.cleared

\* C5: when getContext hands the context a canvas has just released to a
\* different canvas, the context comes back reset: no program, vertex buffer,
\* index buffer, texture, framebuffer or renderbuffer bound, colour buffer
\* cleared.
C5_ReassignedContextIsReset ==
    [][\A c \in Targets :
          (/\ last.op = "releaseContext"
           /\ last.result # Null
           /\ last.canvas # c
           /\ IsGetContext(c)
           /\ last'.result = last.result)
          => \A i \in 1..Len(contexts') :
                contexts'[i].gl = last'.result => GpuReset(contexts'[i].gpu)]_vars

\* C6: getContext for a canvas that is already mapped returns the context it
\* is mapped to (the one its previous getContext returned: a successful
\* getContext leaves the canvas mapped to its result, and the mapping of a canvas
\* changes only by its own release or its own getContext from unmapped), and
\* changes nothing but the lastUsed of that context's entry, which becomes now.
C6_CacheHit ==
    [][\A c \in Targets :
          /\ (IsGetContext(c) /\ Bound(c)) =>
                /\ last'.result = contextMap[c]
                /\ contextMap' = contextMap
                /\ Len(contexts') = Len(contexts)
                /\ getStats' = getStats
                /\ \A i \in 1..Len(contexts) :
                      contexts'[i] = IF contexts[i].gl = contextMap[c]
                                     THEN [contexts[i] EXCEPT !.lastUsed = now]
                                     ELSE contexts[i]
          /\ (IsGetContext(c) /\ last'.result # Null) =>
                contextMap'[c] = last'.result
          /\ (contextMap'[c] # contextMap[c]) =>
                \/ IsReleaseContext(c) /\ contextMap'[c] = Null
                \/ IsGetContext(c) /\ ~Bound(c)]_vars

\* A cache hit in a full pool that moved the entry's lastUsed past another's.
C6_Witness ==
    /\ last.op = "getContext"
    /\ last.path = "existing"
    /\ \E i, j \in 1..Len(contexts) :
          /\ contexts[i].gl = last.result
          /\ contexts[i].lastUsed = now
          /\ contexts[j].lastUsed < now

\* C7: in a full pool whose only free entry is the one canvas T has just
\* released, getContext for another unmapped canvas returns the context T
\* held, the pool keeps its length and T stays unmapped; and in a full pool
\* with every entry in use getContext for an unmapped canvas (T included)
\* takes no mapping, returns null and changes neither entries nor mappings.
C7_ReuseThenMiss ==
    [][\A c \in Targets :
          /\ (/\ last.op = "releaseContext"
               /\ last.result # Null
               /\ Len(contexts) = maxContexts
               /\ Cardinality(FreeEntries(contexts)) = 1
               /\ IsGetContext(c)
               /\ c # last.canvas
               /\ ~Bound(c))
              => /\ last'.result = last.result
                 /\ Len(contexts') = Len(contexts)
                 /\ FreeEntries(contexts') = {}
                 /\ contextMap'[last.canvas] = Null
          /\ (/\ Len(contexts) = maxContexts
               /\ FreeEntries(contexts) = {}
               /\ IsGetContext(c)
               /\ ~Bound(c))
              => /\ last'.path = "null"
                 /\ last'.result = Null
                 /\ contexts' = contexts
                 /\ contextMap' = contextMap]_vars

\* Canvas 1 refused by a full pool that serves the later canvases.
C7_Witness ==
    /\ last.op = "getContext"
    /\ last.canvas = 1
    /\ last.path = "null"
    /\ Len(contexts) = maxContexts
    /\ \A c \in Targets \ {1} : Bound(c)

C8_AcquireAlwaysReturns ==
    \A c \in Targets, size \in CanvasSizes : ENABLED GetContext(c, size, TRUE)

C8_FailsOnlyWhenExhausted ==
    \A c \in Targets :
       (IsGetContext(c) /\ ~Bound(c) /\ last'.glOk) =>
          /\ (last'.result = Null) <=>
                (Len(contexts) = maxContexts /\ FreeEntries(contexts) = {})
          /\ (last'.result = Null) =>
                (contexts' = contexts /\ contextMap' = contextMap)

\* C8: with the platform handing back every context asked for, getContext
\* for an unmapped canvas returns null exactly when the pool holds
\* maxContexts entries and none is free; the call can always be taken (it
\* never waits); a call that returns null leaves entries and mappings as
\* they were.
C8_Exhausted ==
    []C8_AcquireAlwaysReturns /\ [][C8_FailsOnlyWhenExhausted]_vars

\* The canvas beyond the capacity refused by a full pool with no free entry.
C8_Witness ==
    /\ last.op = "getContext"
    /\ last.canvas = maxContexts + 1
    /\ last.result = Null
    /\ last.glOk
    /\ getStats.total = maxContexts
    /\ getStats.free = 0

C9_ReleaseFreesAnEntry ==
    \A c \in Targets :
       /\ (IsReleaseContext(c) /\ Bound(c)) => FreeEntries(contexts') # {}
       /\ (IsGetContext(c) /\ ~Bound(c) /\ FreeEntries(contexts) # {}) =>
             last'.result # Null
       /\ (FreeEntries(contexts) # {} /\ FreeEntries(contexts') = {}) =>
             \E d \in Targets :
                IsGetContext(d) /\ ~Bound(d) /\ last'.result # Null

C9_Refused(c) ==
    /\ last.op = "getContext"
    /\ last.canvas = c
    /\ last.result = Null
    /\ Len(contexts) = maxContexts

C10_ReleaseAlwaysReturns ==
    \A c \in Targets : ENABLED ReleaseContext(c)

C10_ReleaseUnmappedIsNoOp ==
    \A c \in Targets :
       IsReleaseContext(c) =>
          /\ contextMap'[c] = Null
          /\ ~Bound(c) =>
                /\ last'.result = Null
                /\ contexts' = contexts
                /\ contextMap' = contextMap

\* C10: releaseContext can be called in every state; for a canvas that is
\* not mapped it changes no entry and no mapping; and every releaseContext
\* leaves its canvas unmapped, so a second release of the same canvas is such
\* a call and leaves everything as the first left it.
C10_ReleaseIdempotent ==
    []C10_ReleaseAlwaysReturns /\ [][C10_ReleaseUnmappedIsNoOp]_vars

\* A release of an unmapped canvas on a pool with entries in use and free.
C10_Witness ==
    /\ last.op = "releaseContext"
    /\ last.result = Null
    /\ getStats.inUse > 0
    /\ getStats.free > 0

\* C11: when the platform refuses the context that getContext asks for (canvas
\* unmapped, no free entry, pool below maxContexts) the call returns null and
\* entries, mappings and stats stay as they were; and a getContext of an
\* unmapped canvas returns a context, and maps the canvas to it, whenever an
\* entry is free or the pool is below maxContexts and the platform hands a
\* context back.
C11_CreationFailure ==
    [][\A c \in Targets :
          /\ (/\ IsGetContext(c)
               /\ ~Bound(c)
               /\ FreeEntries(contexts) = {}
               /\ Len(contexts) < maxContexts
               /\ ~last'.glOk)
              => /\ last'.result = Null
                 /\ contexts' = contexts
                 /\ contextMap' = contextMap
                 /\ getStats' = getStats
          /\ (/\ IsGetContext(c)
               /\ ~Bound(c)
               /\ \/ FreeEntries(contexts) # {}
                  \/ Len(contexts) < maxContexts /\ last'.glOk)
              => /\ last'.result # Null
                 /\ contextMap'[c] = last'.result]_vars

\* A refused creation while the pool already serves a canvas.
C11_Witness ==
    /\ last.op = "getContext"
    /\ ~last.glOk
    /\ last.result = Null
    /\ getStats.inUse > 0
    /\ getStats.total < maxContexts

\* C12: updateContextSize and renderToCanvas leave the mappings, the number
\* of entries and every entry's context, isInUse, lastUsed and GPU state as
\* they were; renderToCanvas changes no entry at all and draws only from a
\* context that has an entry; updateContextSize with a context that has no
\* entry changes no entry, and with a context that has one changes that
\* entry's canvas size and no other entry.
C12_ResizeAndBlitKeepBookkeeping ==
    [][(last'.op \in {"updateContextSize", "renderToCanvas"}) =>
          /\ contextMap' = contextMap
          /\ Len(contexts') = Len(contexts)
          /\ \A i \in 1..Len(contexts) :
                /\ [contexts'[i] EXCEPT !.size = contexts[i].size] = contexts[i]
                /\ contexts'[i].size # contexts[i].size =>
                      /\ last'.op = "updateContextSize"
                      /\ last'.result = contexts[i].gl
          /\ (last'.op = "renderToCanvas" \/ last'.result = Null) =>
                contexts' = contexts
          /\ last'.result # Null =>
                \E i \in 1..Len(contexts) : contexts[i].gl = last'.result]_vars

\* updateContextSize with a context that has no entry, on a pool that has entries.
C12_Witness ==
    /\ last.op = "updateContextSize"
    /\ last.result = Null
    /\ getStats.inUse > 0

\* C13: releaseContext of a mapped canvas sets its entry's isInUse to false and
\* its lastUsed to Date.now(), which no other entry's lastUsed exceeds, clears
\* the entry's colour buffer and deletes the canvas's mapping; every other
\* entry and every other mapping stays as it was, and getStats() shows inUse
\* one lower and free one higher.
C13_ReleaseOfBound ==
    [][\A c \in Targets :
          (IsReleaseContext(c) /\ Bound(c)) =>
             LET i == FindEntry(contexts, contextMap[c])
             IN  /\ i # 0
                 /\ Len(contexts') = Len(contexts)
                 /\ ~contexts'[i].isInUse
                 /\ contexts'[i].lastUsed = now
                 /\ \A j \in 1..Len(contexts') :
                       contexts'[j].lastUsed <= contexts'[i].lastUsed
                 /\ contexts'[i].gpu.cleared
                 /\ contexts'[i].gl = contexts[i].gl
                 /\ contextMap'[c] = Null
                 /\ \A j \in 1..Len(contexts) : j # i => contexts'[j] = contexts[j]
                 /\ \A d \in Targets : d # c => contextMap'[d] = contextMap[d]
                 /\ getStats'.inUse = getStats.inUse - 1
                 /\ getStats'.free = getStats.free + 1]_vars

\* A canvas released after its context was drawn into, at a time later than
\* the last use of another entry that is still bound.
C13_Witness ==
    /\ last.op = "releaseContext"
    /\ last.result # Null
    /\ \E i, j \in 1..Len(contexts) :
          /\ contexts[i].gl = last.result
          /\ contexts[i].gpu.program
          /\ contexts[i].gpu.cleared
          /\ contexts[j].isInUse
          /\ contexts[j].lastUsed < contexts[i].lastUsed

\* C14: the number of entries never goes down and goes up by one at a time,
\* and only in a getContext for an unmapped canvas made when no entry is free
\* and fewer than maxContexts entries exist; a getContext for a mapped canvas
\* or with a free entry at hand, a releaseContext, an updateContextSize and a
\* renderToCanvas leave it as it was, and the entries there keep their contexts.
C14_TotalGrowsOnlyByCreation ==
    [][/\ Len(contexts') \in {Len(contexts), Len(contexts) + 1}
       /\ \A i \in 1..Len(contexts) : contexts'[i].gl = contexts[i].gl
       /\ Len(contexts') # Len(contexts) =>
             \E c \in Targets :
                /\ IsGetContext(c)
                /\ ~Bound(c)
                /\ FreeEntries(contexts) = {}
                /\ Len(contexts) < maxContexts
       /\ \A c \in Targets :
             (IsGetContext(c) /\ (Bound(c) \/ FreeEntries(contexts) # {})) =>
                getStats'.total = getStats.total
       /\ last'.op \in {"releaseContext", "updateContextSize", "renderToCanvas"} =>
             getStats'.total = getStats.total]_vars

\* The last entry the capacity allows was created while every other entry
\* was bound.
C14_Witness ==
    /\ last.op = "getContext"
    /\ last.path = "new"
    /\ getStats.total = maxContexts
    /\ getStats.free = 0
    /\ \E i \in 1..Len(contexts) : contexts[i].gl # last.result

C15_CleanupNeverInvoked == last.path # "oldest"

C15_OldestSearchFindsNothing ==
    (last'.op = "getContext" /\ last'.path \in {"oldest", "null"}) =>
       /\ FreeEntries(contexts) = {}
       /\ findOldestUnusedContext(contexts) = 0
       /\ last'.path = "null"
       /\ last'.result = Null

C15_ReassignmentTakesFirstFree ==
    \A c \in Targets :
       (/\ IsGetContext(c)
        /\ ~Bound(c)
        /\ \E i \in 1..Len(contexts) : contexts[i].gl = last'.result) =>
          LET i == FindEntry(contexts, last'.result)
          IN  /\ last'.path = "free"
              /\ ~contexts[i].isInUse
              /\ \A j \in 1..(i - 1) : contexts[j].isInUse
              /\ contexts'[i].gpu = contexts[i].gpu

\* C15: whenever getContext gets as far as findOldestUnusedContext no entry is
\* free, so the search finds nothing, the call returns null and cleanupContext
\* is never invoked; an entry that existed before and is handed to an unmapped
\* canvas is always the first free entry in pool order, handed out by the
\* free-entry branch with its GPU state as it was.
C15_EvictionBranchIsDead ==
    /\ []C15_CleanupNeverInvoked
    /\ [][C15_OldestSearchFindsNothing /\ C15_ReassignmentTakesFirstFree]_vars

\* getContext got as far as findOldestUnusedContext in a full pool whose
\* entries were last used at different times.
C15_Witness ==
    /\ last.op = "getContext"
    /\ last.path = "null"
    /\ Len(contexts) = maxContexts
    /\ \E i, j \in 1..Len(contexts) : contexts[i].lastUsed < contexts[j].lastUsed
====
